---- MODULE Spec2Model ----
(***************************************************************************)
(* A model of the prompt engine of ragas: the Prompt template              *)
(* (src/ragas/llms/prompt.py: validation, rendering, format, adapt, save,  *)
(* _load) and the metrics that use it (src/ragas/metrics).                 *)
(*                                                                         *)
(* Text is modelled at the level of characters: a Python str is a sequence *)
(* of one-character strings, so that json.dumps, the brace escaping and    *)
(* str.format are computed, not assumed.  Variable names (keys) are        *)
(* one-character names, "" being the empty name.                           *)
(***************************************************************************)
EXTENDS Integers, Sequences, FiniteSets, TLC

VARIABLES
    args,       \* the keyword arguments handed to Prompt(...)
    heap,       \* the Prompt objects that exist, by object id (index)
    out,        \* the outcome of the last operation
    cache,      \* the cache store: path -> file
    llm,        \* the behaviour of the model client
    pc,         \* where Prompt.adapt stands
    frame,      \* the locals of the Prompt.adapt call, kept until the next operation
    llmLog,     \* the generate_text calls of that call: request and response
    repairLog,  \* the json_loader.safe_load calls of that call
    metric      \* the AspectCritique instance

vars == <<args, heap, out, cache, llm, pc, frame, llmLog, repairLog, metric>>

adaptVars == <<cache, llm, pc, frame, llmLog, repairLog>>

(***************************************************************************)
(* Bounds of the model.                                                    *)
(***************************************************************************)
MaxExamples == 2

MaxStrictness == 4

MaxResults == 5

MaxSamples == 3

MaxStatements == 3

MaxCandidates == 2

(***************************************************************************)
(* Python values.                                                          *)
(***************************************************************************)
NoneVal == [t |-> "None"]

Str(s) == [t |-> "str", s |-> s]

Dict(items) == [t |-> "dict", items |-> items]

NL == "\n"

QUOTE == "\""

BACKSLASH == "\\"

RECURSIVE Concat(_)
\* "".join(parts)
Concat(parts) ==
    IF parts = <<>> THEN <<>> ELSE Head(parts) \o Concat(Tail(parts))

RECURSIVE ReplaceChar(_, _, _)
\* str.replace(c, rep) for a one-character c
ReplaceChar(s, c, rep) ==
    IF s = <<>> THEN <<>>
    ELSE (IF Head(s) = c THEN rep ELSE <<Head(s)>>) \o ReplaceChar(Tail(s), c, rep)

RECURSIVE ReplaceTwo(_, _, _)
\* str.replace(cc, c) for a two-character cc = c c, scanning left to right
ReplaceTwo(s, c, rep) ==
    IF Len(s) < 2 THEN s
    ELSE IF s[1] = c /\ s[2] = c
         THEN rep \o ReplaceTwo(SubSeq(s, 3, Len(s)), c, rep)
         ELSE <<s[1]>> \o ReplaceTwo(Tail(s), c, rep)

(***************************************************************************)
(* json.dumps(value, ensure_ascii=False): a str is quoted and its quotes,  *)
(* backslashes and newlines are escaped; a dict is written with the        *)
(* default separators ", " and ": ".                                       *)
(***************************************************************************)
JsonEscapeChar(c) ==
    IF c = QUOTE THEN <<BACKSLASH, QUOTE>>
    ELSE IF c = BACKSLASH THEN <<BACKSLASH, BACKSLASH>>
    ELSE IF c = NL THEN <<BACKSLASH, "n">>
    ELSE <<c>>

RECURSIVE JsonEscape(_)
JsonEscape(s) ==
    IF s = <<>> THEN <<>> ELSE JsonEscapeChar(Head(s)) \o JsonEscape(Tail(s))

JsonDumpsStr(s) == <<QUOTE>> \o JsonEscape(s) \o <<QUOTE>>

RECURSIVE JsonDumpsItems(_)
JsonDumpsItems(items) ==
    IF items = <<>> THEN <<>>
    ELSE JsonDumpsStr(Head(items)[1]) \o <<":", " ">> \o JsonDumpsStr(Head(items)[2])
         \o (IF Tail(items) = <<>> THEN <<>> ELSE <<",", " ">> \o JsonDumpsItems(Tail(items)))

JsonDumps(v) ==
    IF v.t = "str" THEN JsonDumpsStr(v.s)
    ELSE <<"{">> \o JsonDumpsItems(v.items) \o <<"}">>

(***************************************************************************)
(* json.loads(text) succeeds.  The recognizer is exact on the texts of the *)
(* model: no backslash escapes, no arrays, no white space but one blank    *)
(* after a colon, objects of at most one member holding a string.          *)
(***************************************************************************)
IsJsonNumber(s) == s # <<>> /\ \A i \in 1..Len(s) : s[i] \in {"1", "2"}

IsJsonStringLit(s) ==
    /\ Len(s) >= 2
    /\ s[1] = QUOTE
    /\ s[Len(s)] = QUOTE
    /\ \A i \in 2..(Len(s) - 1) : s[i] \notin {QUOTE, BACKSLASH, NL}

IsJsonScalar(s) == IsJsonNumber(s) \/ IsJsonStringLit(s)

IsJsonObject(s) ==
    /\ Len(s) >= 2
    /\ s[1] = "{"
    /\ s[Len(s)] = "}"
    /\ \/ Len(s) = 2
       \/ \E i \in 3..(Len(s) - 2) :
            /\ s[i] = ":"
            /\ IsJsonStringLit(SubSeq(s, 2, i - 1))
            /\ \/ IsJsonStringLit(SubSeq(s, i + 1, Len(s) - 1))
               \/ s[i + 1] = " " /\ IsJsonStringLit(SubSeq(s, i + 2, Len(s) - 1))

JsonLoadsOk(s) == IsJsonScalar(s) \/ IsJsonObject(s)

(***************************************************************************)
(* An example is a Python dict: a sequence of <<key, value>> pairs in      *)
(* insertion order, the keys distinct.                                     *)
(***************************************************************************)
HasKey(example, key) == \E i \in 1..Len(example) : example[i][1] = key

GetKey(example, key) ==
    IF HasKey(example, key)
    THEN example[CHOOSE i \in 1..Len(example) : example[i][1] = key][2]
    ELSE NoneVal

Range(seq) == {seq[i] : i \in 1..Len(seq)}

KeyChars(key) == IF key = "" THEN <<>> ELSE <<key>>

\* str.lower() on the output types of the model
Lower(s) == IF s = "JSON" THEN "json" ELSE s

(***************************************************************************)
(* Prompt.validate_prompt: "ok", or the ValueError it raises.              *)
(***************************************************************************)
\* a str compared with the list []: never equal in Python
StrEqualsList(s, list) == FALSE

ExampleError(values, no) ==
    LET example == values.examples[no]
        missing == {j \in 1..Len(values.input_keys) :
                        ~HasKey(example, values.input_keys[j])}
    IN  IF missing # {}
        THEN [err |-> "missing variable", no |-> no,
              key |-> values.input_keys[CHOOSE j \in missing : \A m \in missing : j <= m]]
        ELSE IF ~HasKey(example, values.output_key)
        THEN [err |-> "missing variable", no |-> no, key |-> values.output_key]
        ELSE IF /\ Lower(values.output_type) = "json"
                /\ HasKey(example, values.output_key)
                /\ GetKey(example, values.output_key).t = "str"
                /\ ~JsonLoadsOk(GetKey(example, values.output_key).s)
        THEN [err |-> "not valid json", no |-> no, key |-> values.output_key]
        ELSE [err |-> "ok"]

\* values.get(field) is None: the field is absent from values
IsNone(values, field) == field \in values.missing

validate_prompt(values) ==
    IF IsNone(values, "instruction") \/ values.instruction = <<>>
    THEN [err |-> "instruction cannot be empty"]
    ELSE IF IsNone(values, "input_keys") \/ StrEqualsList(values.instruction, <<>>)
    THEN [err |-> "input_keys cannot be empty"]
    ELSE IF IsNone(values, "output_key") \/ values.output_key = ""
    THEN [err |-> "output_key cannot be empty"]
    ELSE LET bad == {no \in 1..Len(values.examples) :
                        ExampleError(values, no).err # "ok"}
         IN  IF bad = {} THEN [err |-> "ok"]
             ELSE ExampleError(values, CHOOSE no \in bad : \A m \in bad : no <= m)

(***************************************************************************)
(* Prompt.to_string.                                                       *)
(***************************************************************************)
EscapeBracesOpenOnly(self, text) ==
    IF Lower(self.output_type) = "json"
    THEN ReplaceChar(text, "{", <<"{", "{">>)
    ELSE text

\* value.replace("{", "{{").replace("}", "}}") if output_type is json
EscapeBraces(self, text) ==
    IF Lower(self.output_type) = "json"
    THEN ReplaceChar(ReplaceChar(text, "{", <<"{", "{">>), "}", <<"}", "}">>)
    ELSE text

\* the text one field of an example adds: "\n{key}: {value}"
FieldValueText(self, field) == EscapeBraces(self, JsonDumps(field[2]))

FieldText(self, field) ==
    <<NL>> \o KeyChars(field[1]) \o <<":", " ">> \o FieldValueText(self, field)

ExampleText(self, example) ==
    Concat([i \in 1..Len(example) |-> FieldText(self, example[i])])

ExamplesText(self) ==
    Concat([i \in 1..Len(self.examples) |->
                ExampleText(self, self.examples[i]) \o <<NL>>])

SlotText(key) == <<NL>> \o KeyChars(key) \o <<":", " ", "{">> \o KeyChars(key) \o <<"}">>

SlotsTextReversed(self) ==
    Concat([i \in 1..Len(self.input_keys) |->
                SlotText(self.input_keys[Len(self.input_keys) + 1 - i])])

\* "".join(f"\n{key}: {{{key}}}" for key in self.input_keys)
SlotsText(self) ==
    Concat([i \in 1..Len(self.input_keys) |-> SlotText(self.input_keys[i])])

CueText(self) ==
    IF self.output_key # ""
    THEN <<NL>> \o KeyChars(self.output_key) \o <<":", " ", NL>>
    ELSE <<>>

to_string(self) ==
    self.instruction \o <<NL>> \o ExamplesText(self) \o SlotsText(self) \o CueText(self)

(***************************************************************************)
(* str.format with keyword arguments, as the scanner it is: in literal     *)
(* text "{{" and "}}" give one brace, a single "{" opens a replacement     *)
(* field that is looked up in kwargs and closed by "}", a single "}" is an *)
(* error.  Exact on the texts of the model, in which no field name is      *)
(* followed by one of ! : . [ (every other malformed or unknown field      *)
(* raises KeyError, IndexError or ValueError).                             *)
(***************************************************************************)
ScanStep(st, ch, kwargs) ==
    CASE st.m = "lit" ->
            (IF ch = "{" THEN [st |-> [m |-> "open"], s |-> <<>>]
             ELSE IF ch = "}" THEN [st |-> [m |-> "close"], s |-> <<>>]
             ELSE [st |-> st, s |-> <<ch>>])
      [] st.m = "open" ->
            (IF ch = "{" THEN [st |-> [m |-> "lit"], s |-> <<"{">>]
             ELSE IF ch \in DOMAIN kwargs THEN [st |-> [m |-> "name", c |-> ch], s |-> <<>>]
             ELSE [st |-> [m |-> "err"], s |-> <<>>])
      [] st.m = "name" ->
            (IF ch = "}" THEN [st |-> [m |-> "lit"], s |-> kwargs[st.c]]
             ELSE [st |-> [m |-> "err"], s |-> <<>>])
      [] st.m = "close" ->
            (IF ch = "}" THEN [st |-> [m |-> "lit"], s |-> <<"}">>]
             ELSE [st |-> [m |-> "err"], s |-> <<>>])
      [] OTHER -> [st |-> [m |-> "err"], s |-> <<>>]

ScanJoin(left, right) == [st |-> right.st, s |-> left.s \o right.s]

RECURSIVE Scan(_, _, _, _, _)
\* the scan of t[lo..hi] from state st, left to right
Scan(t, lo, hi, st, kwargs) ==
    IF lo > hi THEN [st |-> st, s |-> <<>>]
    ELSE IF lo = hi THEN ScanStep(st, t[lo], kwargs)
    ELSE CHOOSE res \in
            {ScanJoin(left, Scan(t, ((lo + hi) \div 2) + 1, hi, left.st, kwargs)) :
                left \in {Scan(t, lo, (lo + hi) \div 2, st, kwargs)}} : TRUE

StrFormat(t, kwargs) ==
    LET r == Scan(t, 1, Len(t), [m |-> "lit"], kwargs)
    IN  IF r.st.m = "lit" THEN [ok |-> TRUE, s |-> r.s] ELSE [ok |-> FALSE, s |-> <<>>]

(***************************************************************************)
(* Prompt.format with keyword arguments.                                                *)
(***************************************************************************)
KeysMismatchSubset(self, kwargs) == ~(Range(self.input_keys) \subseteq DOMAIN kwargs)

\* set(self.input_keys) != set(kwargs.keys())
KeysMismatch(self, kwargs) == Range(self.input_keys) # DOMAIN kwargs

format(self, kwargs) ==
    IF KeysMismatch(self, kwargs)
    THEN [kind |-> "ValueError", what |-> "parameter mismatch",
          expected |-> self.input_keys, given |-> DOMAIN kwargs]
    ELSE LET r == StrFormat(to_string(self), kwargs)
         IN  IF r.ok THEN [kind |-> "PromptValue", prompt_str |-> r.s]
             ELSE [kind |-> "str.format error"]

(***************************************************************************)
(* The rendering specification: a Prompt is constructed from arguments     *)
(* drawn from small sets, then rendered and formatted.                     *)
(***************************************************************************)
InValues == {Str(<<"{", "a", "}">>)}

OutValues ==
    {Str(<<"{", "}">>), Str(<<"{">>), Str(<<QUOTE, "x", QUOTE>>),
     Dict(<< <<<<"k">>, <<"}">>>> >>)}

ValuesOf(key) == IF key = "o" THEN OutValues ELSE InValues

RenderExamples ==
    {<<>>}
    \cup {<< <<k, v>> >> : k \in {"a", "o"}, v \in InValues \cup OutValues}
    \cup {<< <<"a", v>>, <<"o", w>> >> : v \in InValues, w \in OutValues}
    \cup {<< <<"o", w>>, <<"a", v>> >> : v \in InValues, w \in OutValues}

RECURSIVE SeqsUpTo(_, _)
\* the sequences over S of length at most n
SeqsUpTo(S, n) ==
    IF n = 0 THEN {<<>>}
    ELSE LET shorter == SeqsUpTo(S, n - 1)
         IN  shorter \cup {Append(s, x) : s \in shorter, x \in S}

RenderArgs ==
    LET all ==
          [name : {"p"},
           instruction : {<<>>, <<"T">>},
           examples : SeqsUpTo({e \in RenderExamples :
                                  \A i \in 1..Len(e) : e[i][2] \in ValuesOf(e[i][1])},
                               MaxExamples),
           input_keys : {<<>>, <<"a">>, <<"a", "b">>},
           output_key : {"", "o"},
           output_type : {"json", "JSON", "str"},
           language : {"en"},
           missing : {{}, {"input_keys"}}]
    IN  {a \in all : a.missing = {} \/ a.input_keys = <<>>}

KwargValue == <<"v", "{">>

Kwargs == UNION {[D -> {KwargValue}] : D \in SUBSET {"a", "b", "c"}}

NoFile == [exists |-> FALSE]

NoFrame == [active |-> FALSE]

NoMetric == [state |-> "none"]

InitRender ==
    /\ args \in RenderArgs
    /\ heap = <<>>
    /\ out = [op |-> "none"]
    /\ cache = <<>>
    /\ llm = "none"
    /\ pc = "idle"
    /\ frame = NoFrame
    /\ llmLog = <<>>
    /\ repairLog = <<>>
    /\ metric = NoMetric

\* Prompt construction: the root validator runs, and the object exists iff it passes
Construct ==
    /\ heap = <<>>
    /\ out.op = "none"
    /\ LET v == validate_prompt(args)
       IN  /\ out' = [op |-> "construct", result |-> v]
           /\ heap' = IF v.err = "ok" THEN <<args>> ELSE heap
    /\ UNCHANGED <<args, adaptVars, metric>>

Render ==
    /\ heap # <<>>
    /\ out' = [op |-> "to_string", result |-> to_string(heap[1])]
    /\ UNCHANGED <<args, heap, adaptVars, metric>>

Format ==
    /\ heap # <<>>
    /\ \E kwargs \in Kwargs :
         out' = [op |-> "format", kwargs |-> kwargs, result |-> format(heap[1], kwargs)]
    /\ UNCHANGED <<args, heap, adaptVars, metric>>

\* the example numbers asked for: from below -len to above len
ExampleNumbers == (0 - (MaxExamples + 1))..(MaxExamples + 1)

\* Prompt.get_example_str: the text of the example, or the error raised; a
\* negative number indexes the list from its end
get_example_str(self, example_no) ==
    IF example_no >= Len(self.examples)
    THEN [kind |-> "ValueError", what |-> "out of range", example_no |-> example_no]
    ELSE IF example_no < 0 - Len(self.examples)
    THEN [kind |-> "IndexError", what |-> "list index out of range"]
    ELSE [kind |-> "str",
          text |-> ExampleText(self,
                       self.examples[IF example_no >= 0
                                     THEN example_no + 1
                                     ELSE Len(self.examples) + example_no + 1])]

GetExampleStr ==
    /\ heap # <<>>
    /\ \E example_no \in ExampleNumbers :
         out' = [op |-> "get_example_str", example_no |-> example_no,
                 result |-> get_example_str(heap[1], example_no)]
    /\ UNCHANGED <<args, heap, adaptVars, metric>>

NextRender == Construct \/ Render \/ Format \/ GetExampleStr

SpecRender == InitRender /\ [][NextRender]_vars

(***************************************************************************)
(* The cache store (prompt.py, save and _load).  A path is the triple      *)
(* <cache_dir>/<language>/<name>.json; a file is the JSON document that     *)
(* json.dump wrote.  A JSON object is a record of its members, a JSON       *)
(* string is tagged "string", a JSON object of an example is tagged         *)
(* "object": json.dump and json.load convert between the two forms.         *)
(***************************************************************************)
Languages == {"en", "hi"}

\* get_cache_dir() of ragas.utils: the default cache root
DefaultCacheDir == "~/.cache/ragas"

\* the cache_dir arguments of save and adapt: None or an explicit root
CacheDirArgs == {"None", "r"}

\* cache_dir if cache_dir else get_cache_dir()
ResolveCacheDir(cache_dir) ==
    IF cache_dir \in {"None", ""} THEN DefaultCacheDir ELSE cache_dir

\* os.path.join(cache_dir, language, f"{name}.json")
CachePath(cache_dir, language, name) == <<cache_dir, language, name>>

CachePaths == {DefaultCacheDir, "r"} \X Languages \X {"p"}

\* os.path.exists(path)
PathExists(files, path) == files[path].exists

JsonOfValue(v) ==
    IF v.t = "str" THEN [j |-> "string", s |-> v.s]
    ELSE [j |-> "object", members |-> v.items]

ValueOfJson(x) ==
    IF x.j = "string" THEN Str(x.s) ELSE Dict(x.members)

JsonOfExample(example) ==
    [i \in 1..Len(example) |-> <<example[i][1], JsonOfValue(example[i][2])>>]

ExampleOfJson(members) ==
    [i \in 1..Len(members) |-> <<members[i][1], ValueOfJson(members[i][2])>>]

\* self.dict(): the seven fields of the model, flat, and its JSON document
PromptDict(self) ==
    [name        |-> self.name,
     instruction |-> self.instruction,
     examples    |-> [i \in 1..Len(self.examples) |-> JsonOfExample(self.examples[i])],
     input_keys  |-> self.input_keys,
     output_key  |-> self.output_key,
     output_type |-> self.output_type,
     language    |-> self.language]

\* the keyword arguments that a stored JSON object of seven members gives
ArgsOfJson(d) ==
    [name        |-> d.name,
     instruction |-> d.instruction,
     examples    |-> [i \in 1..Len(d.examples) |-> ExampleOfJson(d.examples[i])],
     input_keys  |-> d.input_keys,
     output_key  |-> d.output_key,
     output_type |-> d.output_type,
     language    |-> d.language,
     missing     |-> {}]

\* save: json.dump(self.dict(), file, indent=4) at the path of self.language
save(self, cache_dir, files) ==
    [files EXCEPT ![CachePath(ResolveCacheDir(cache_dir), self.language, self.name)] =
        [exists |-> TRUE, doc |-> PromptDict(self)]]

\* _load: cls(**json.load(open(path))["kwargs"])
load(language, name, cache_dir, files) ==
    LET path == CachePath(cache_dir, language, name)
    IN  IF ~PathExists(files, path) THEN [kind |-> "FileNotFoundError"]
        ELSE IF "kwargs" \notin DOMAIN files[path].doc
             THEN [kind |-> "KeyError", key |-> "kwargs"]
             ELSE LET a == ArgsOfJson(files[path].doc.kwargs)
                  IN  IF validate_prompt(a).err = "ok"
                      THEN [kind |-> "Prompt", obj |-> a]
                      ELSE [kind |-> "ValidationError", error |-> validate_prompt(a)]

\* the outcome of a load as the caller sees it: a new object gets the next id
LoadOutcome(r, objects) ==
    IF r.kind = "Prompt" THEN [kind |-> "Prompt", id |-> Len(objects) + 1] ELSE r

HeapAfterLoad(r, objects) ==
    IF r.kind = "Prompt" THEN Append(objects, r.obj) ELSE objects

(***************************************************************************)
(* Collaborators of Prompt.adapt.  The model client answers one request    *)
(* with one text; the n-th call of an adapt gets a text that carries n, so  *)
(* that the responses of different requests differ.  A "good" client        *)
(* answers a JSON translation with a JSON object, a "plain" client always   *)
(* answers plain text.                                                      *)
(***************************************************************************)
LLMKinds == {"good", "plain"}

Digits == <<"1", "2", "3", "4", "5", "6", "7", "8", "9">>

Digit(n) == Digits[((n - 1) % Len(Digits)) + 1]

JsonObjectText(k, v) ==
    <<"{", QUOTE>> \o k \o <<QUOTE, ":", " ", QUOTE>> \o v \o <<QUOTE, "}">>

\* llm.generate_text(p).generations[0][0].text
LLMResponse(kind, n, request) ==
    CASE kind = "good" ->
            IF request.prompt = "json_translation"
            THEN JsonObjectText(<<"k">>, <<"t", Digit(n)>>)
            ELSE <<"t", Digit(n)>>
      [] OTHER -> <<"t", Digit(n)>>

\* json.loads(text) on the texts that JsonLoadsOk accepts
JsonLoads(s) ==
    IF IsJsonStringLit(s) THEN Str(SubSeq(s, 2, Len(s) - 1))
    ELSE IF IsJsonNumber(s) THEN [t |-> "int", s |-> s]
    ELSE IF Len(s) = 2 THEN Dict(<<>>)
    ELSE LET i == CHOOSE i \in 3..(Len(s) - 2) :
                     /\ s[i] = ":"
                     /\ IsJsonStringLit(SubSeq(s, 2, i - 1))
             v == IF s[i + 1] = " " THEN SubSeq(s, i + 2, Len(s) - 1)
                                    ELSE SubSeq(s, i + 1, Len(s) - 1)
         IN  Dict(<< <<SubSeq(s, 3, i - 2), SubSeq(v, 2, Len(v) - 1)>> >>)

\* json_loader.safe_load(text, llm): the value of a valid JSON text; for
\* any other text it consults the model client and returns a repaired
\* value, or fails
SafeLoadOutcomes(text) ==
    IF JsonLoadsOk(text)
    THEN {[kind |-> "value", value |-> JsonLoads(text), calls |-> 0]}
    ELSE {[kind |-> "value", value |-> Dict(<<>>), calls |-> 1],
          [kind |-> "error"]}

(***************************************************************************)
(* Prompt.adapt, the pure parts.  A request is the translation template    *)
(* it was formatted from with its two arguments.                           *)
(***************************************************************************)
TranslationRequest(template, language, input) ==
    [prompt |-> template, translate_to |-> language, input |-> input]

OutputTemplate(self) ==
    IF Lower(self.output_type) = "json" THEN "json_translation" ELSE "str_translation"

\* the output request first, then the input keys
ExamplePromptsOutputFirst(self, example, language) ==
    [j \in 1..(Len(self.input_keys) + 1) |->
        IF j = 1
        THEN TranslationRequest(OutputTemplate(self), language,
                                GetKey(example, self.output_key))
        ELSE TranslationRequest("str_translation", language,
                                GetKey(example, self.input_keys[j - 1]))]

\* the requests of one example: the input keys in order, then the output key
ExamplePrompts(self, example, language) ==
    [j \in 1..(Len(self.input_keys) + 1) |->
        IF j <= Len(self.input_keys)
        THEN TranslationRequest("str_translation", language,
                                GetKey(example, self.input_keys[j]))
        ELSE TranslationRequest(OutputTemplate(self), language,
                                GetKey(example, self.output_key))]

BuildPrompts(self, language) ==
    Concat([i \in 1..Len(self.examples) |->
               ExamplePrompts(self, self.examples[i], language)])

Min(a, b) == IF a <= b THEN a ELSE b

\* [results[i : i + per] for i in range(0, len(results), per)]
GroupResults(results, per) ==
    [c \in 1..((Len(results) + per - 1) \div per) |->
        SubSeq(results, (c - 1) * per + 1, Min(c * per, Len(results)))]

\* d[k] = v on a dict in insertion order
DictSet(d, k, v) ==
    IF HasKey(d, k)
    THEN [i \in 1..Len(d) |-> IF d[i][1] = k THEN <<k, v>> ELSE d[i]]
    ELSE Append(d, <<k, v>>)

\* {k: v for k, v in zip(keys, vals)}, the first n pairs
RECURSIVE ZipDict(_, _, _)
ZipDict(keys, vals, n) ==
    IF n = 0 THEN <<>>
    ELSE DictSet(ZipDict(keys, vals, n - 1), keys[n], Str(vals[n]))

\* example[: len(self.input_keys)]
InputPart(self, chunk) == SubSeq(chunk, 1, Min(Len(self.input_keys), Len(chunk)))

\* the input keys zipped from the end of the chunk
RebuildExampleShifted(self, chunk, outValue) ==
    DictSet(ZipDict(self.input_keys, Tail(chunk),
                    Min(Len(self.input_keys), Len(Tail(chunk)))),
            self.output_key, outValue)

\* example_dict of one chunk, outValue being the value of the output key
RebuildExample(self, chunk, outValue) ==
    DictSet(ZipDict(self.input_keys, InputPart(self, chunk),
                    Min(Len(self.input_keys), Len(InputPart(self, chunk)))),
            self.output_key, outValue)

(***************************************************************************)
(* The templates that save, _load and adapt work on: every one passes      *)
(* validate_prompt.  The output key may be one of the input keys: the       *)
(* validator does not forbid it.                                            *)
(***************************************************************************)
\* the value of an input key carries the key: the values of two keys differ
MainInValue(key) == Str(<<"x", key>>)

\* the output key is tried as an input key on the one-key templates
MainOutputKeys(input_keys) == IF input_keys = <<"a">> THEN {"o", "a"} ELSE {"o"}

MainOutValues(output_type) ==
    IF Lower(output_type) = "json"
    THEN {Str(<<QUOTE, "x", QUOTE>>), Dict(<< <<<<"k">>, <<"v">>>> >>)}
    ELSE {Str(<<"y">>)}

\* the examples of a template: the input keys in order, then the output key
MainExamples(input_keys, output_key, output_type) ==
    {DictSet([j \in 1..Len(input_keys) |-> <<input_keys[j], MainInValue(input_keys[j])>>],
             output_key, w) : w \in MainOutValues(output_type)}

MainArgs ==
    LET all ==
          UNION {
            UNION {
              UNION {
                { [name        |-> "p",
                   instruction |-> <<"T">>,
                   examples    |-> es,
                   input_keys  |-> ik,
                   output_key  |-> ok,
                   output_type |-> ot,
                   language    |-> "en",
                   missing     |-> {}] :
                    es \in SeqsUpTo(MainExamples(ik, ok, ot), MaxExamples) }
                : ot \in {"JSON", "str"} }
              : ok \in MainOutputKeys(ik) }
            : ik \in {<<>>, <<"a">>, <<"a", "b">>} }
    IN  {a \in all : validate_prompt(a).err = "ok"}

Init ==
    /\ args \in MainArgs
    /\ heap = <<args>>
    /\ out = [op |-> "construct", result |-> validate_prompt(args)]
    /\ cache = [path \in CachePaths |-> NoFile]
    /\ llm \in LLMKinds
    /\ pc = "idle"
    /\ frame = NoFrame
    /\ llmLog = <<>>
    /\ repairLog = <<>>
    /\ metric = NoMetric

\* Prompt.save(cache_dir)
Save ==
    /\ pc = "idle"
    /\ \E cache_dir \in CacheDirArgs :
         /\ cache' = save(heap[1], cache_dir, cache)
         /\ out' = [op |-> "save",
                    path |-> CachePath(ResolveCacheDir(cache_dir),
                                       heap[1].language, heap[1].name),
                    saved |-> PromptDict(heap[1])]
    /\ frame' = NoFrame
    /\ llmLog' = <<>>
    /\ repairLog' = <<>>
    /\ UNCHANGED <<args, heap, llm, pc, metric>>

\* Prompt._load(language, name, cache_dir)
Load ==
    /\ pc = "idle"
    /\ \E path \in CachePaths :
         LET r == load(path[2], path[3], path[1], cache)
         IN  /\ out' = [op |-> "load", path |-> path, result |-> LoadOutcome(r, heap)]
             /\ heap' = HeapAfterLoad(r, heap)
    /\ frame' = NoFrame
    /\ llmLog' = <<>>
    /\ repairLog' = <<>>
    /\ UNCHANGED <<args, cache, llm, pc, metric>>

\* the object that adapt is called on: the Template, or the Template in the
\* field that the adapt of a metric has come to
SelfId ==
    IF metric.state = "metrics"
    THEN metric.fields[IF metric.step = 0 THEN 1 ELSE metric.step]
    ELSE 1

\* adapt, lines 151-153: the cache file exists, the call returns what _load gives
AdaptHit ==
    /\ pc = "idle"
    /\ \E language \in Languages, cache_dir \in CacheDirArgs :
         LET path == CachePath(ResolveCacheDir(cache_dir), language, heap[SelfId].name)
             r == load(language, heap[SelfId].name, ResolveCacheDir(cache_dir), cache)
         IN  /\ PathExists(cache, path)
             /\ out' = [op |-> "adapt", hit |-> TRUE, path |-> path,
                        result |-> LoadOutcome(r, heap)]
             /\ heap' = HeapAfterLoad(r, heap)
    /\ llmLog' = <<>>
    /\ repairLog' = <<>>
    /\ frame' = NoFrame
    /\ UNCHANGED <<args, cache, llm, pc, metric>>

\* adapt, lines 155-173: no cache file, the requests are built
AdaptMiss ==
    /\ pc = "idle"
    /\ \E language \in Languages, cache_dir \in CacheDirArgs :
         LET path == CachePath(ResolveCacheDir(cache_dir), language, heap[SelfId].name)
             prompts == BuildPrompts(heap[SelfId], language)
         IN  /\ ~PathExists(cache, path)
             /\ frame' = [active |-> TRUE, language |-> language,
                          before |-> heap[SelfId], prompts |-> prompts,
                          results |-> <<>>, grouped |-> <<>>, i |-> 0]
             /\ out' = [op |-> "adapt", hit |-> FALSE, path |-> path,
                        result |-> [kind |-> "running"]]
             /\ pc' = IF prompts = <<>> THEN "regroup" ELSE "dispatch"
    /\ llmLog' = <<>>
    /\ repairLog' = <<>>
    /\ UNCHANGED <<args, heap, cache, llm, metric>>

\* adapt, lines 176-178: one generate_text call, its text appended to results
AdaptCall ==
    /\ pc = "dispatch"
    /\ LET request == frame.prompts[Len(frame.results) + 1]
           response == LLMResponse(llm, Len(llmLog) + 1, request)
       IN  /\ llmLog' = Append(llmLog, [request |-> request, response |-> response])
           /\ frame' = [frame EXCEPT !.results = Append(@, response)]
           /\ pc' = IF Len(frame.results) + 1 = Len(frame.prompts)
                    THEN "regroup" ELSE "dispatch"
    /\ UNCHANGED <<args, heap, out, cache, llm, repairLog, metric>>

\* the model client fails: the error leaves adapt
AdaptCallRaises ==
    /\ pc = "dispatch"
    /\ out' = [out EXCEPT !.result = [kind |-> "LLMError"]]
    /\ pc' = "idle"
    /\ UNCHANGED <<args, heap, cache, llm, frame, llmLog, repairLog, metric>>

\* adapt, lines 179-186: the results are chunked and the chunks counted
AdaptRegroup ==
    /\ pc = "regroup"
    /\ LET grouped == GroupResults(frame.results, Len(heap[SelfId].input_keys) + 1)
       IN  IF Len(grouped) = Len(heap[SelfId].examples)
           THEN /\ frame' = [frame EXCEPT !.grouped = grouped, !.i = 1]
                /\ pc' = IF grouped = <<>> THEN "finalize" ELSE "rebuild"
                /\ out' = out
           ELSE /\ out' = [out EXCEPT !.result = [kind |-> "AssertionError"]]
                /\ pc' = "idle"
                /\ frame' = [frame EXCEPT !.grouped = grouped]
    /\ UNCHANGED <<args, heap, cache, llm, llmLog, repairLog, metric>>

\* adapt, lines 187-198: one pass of the loop, example i is replaced
AdaptRebuild ==
    /\ pc = "rebuild"
    /\ LET self == heap[SelfId]
           chunk == frame.grouped[frame.i]
           last == chunk[Len(chunk)]
       IN  IF Lower(self.output_type) = "json"
           THEN \E o \in SafeLoadOutcomes(last) :
                  /\ o.kind = "value"
                  /\ repairLog' = Append(repairLog, [text |-> last, value |-> o.value,
                                                     calls |-> o.calls])
                  /\ heap' = [heap EXCEPT ![SelfId].examples[frame.i] =
                                 RebuildExample(self, chunk, o.value)]
           ELSE /\ repairLog' = repairLog
                /\ heap' = [heap EXCEPT ![SelfId].examples[frame.i] =
                               RebuildExample(self, chunk, Str(last))]
    /\ frame' = [frame EXCEPT !.i = @ + 1]
    /\ pc' = IF frame.i = Len(frame.grouped) THEN "finalize" ELSE "rebuild"
    /\ UNCHANGED <<args, out, cache, llm, llmLog, metric>>

\* json_loader.safe_load fails: the error leaves adapt, the examples rebuilt
\* so far stay
AdaptRebuildRaises ==
    /\ pc = "rebuild"
    /\ Lower(heap[SelfId].output_type) = "json"
    /\ LET chunk == frame.grouped[frame.i]
       IN  \E o \in SafeLoadOutcomes(chunk[Len(chunk)]) : o.kind = "error"
    /\ out' = [out EXCEPT !.result = [kind |-> "JSONRepairError"]]
    /\ pc' = "idle"
    /\ UNCHANGED <<args, heap, cache, llm, frame, llmLog, repairLog, metric>>

\* adapt, lines 200-204: the language is set and self returned
AdaptFinalize ==
    /\ pc = "finalize"
    /\ heap' = [heap EXCEPT ![SelfId].language = frame.language]
    /\ out' = [out EXCEPT !.result = [kind |-> "Prompt", id |-> SelfId]]
    /\ pc' = "idle"
    /\ UNCHANGED <<args, cache, llm, frame, llmLog, repairLog, metric>>

Next ==
    \/ Save
    \/ Load
    \/ AdaptHit
    \/ AdaptMiss
    \/ AdaptCall
    \/ AdaptCallRaises
    \/ AdaptRegroup
    \/ AdaptRebuild
    \/ AdaptRebuildRaises
    \/ AdaptFinalize

Spec == Init /\ [][Next]_vars

(***************************************************************************)
(* The regrouping and rebuilding steps of adapt (lines 179-204) on their   *)
(* own: they start from any flat results list, whatever its length.         *)
(***************************************************************************)
ResultTexts(n) == {<<"t", Digit(n)>>, JsonObjectText(<<"k">>, <<"t", Digit(n)>>)}

ResultLists ==
    UNION {{r \in [1..len -> UNION {ResultTexts(n) : n \in 1..len}] :
                \A n \in 1..len : r[n] \in ResultTexts(n)} : len \in 0..MaxResults}

InitRegroup ==
    /\ args \in MainArgs
    /\ heap = <<args>>
    /\ out = [op |-> "adapt", hit |-> FALSE,
              path |-> CachePath(DefaultCacheDir, "hi", args.name),
              result |-> [kind |-> "running"]]
    /\ cache = [path \in CachePaths |-> NoFile]
    /\ llm = "good"
    /\ pc = "regroup"
    /\ \E results \in ResultLists :
         frame = [active |-> TRUE, language |-> "hi", before |-> args,
                  prompts |-> BuildPrompts(args, "hi"),
                  results |-> results, grouped |-> <<>>, i |-> 0]
    /\ llmLog = <<>>
    /\ repairLog = <<>>
    /\ metric = NoMetric

NextRegroup ==
    \/ AdaptRegroup
    \/ AdaptRebuild
    \/ AdaptRebuildRaises
    \/ AdaptFinalize

SpecRegroup == InitRegroup /\ [][NextRegroup]_vars

(***************************************************************************)
(* AspectCritique (critique.py).  A text is a sequence of symbols; a call  *)
(* of the model client is recorded with its method and its repeat count n,  *)
(* which is either passed or left to the default of the client.             *)
(***************************************************************************)
\* generate(prompt, n=1): the repeat count when the caller passes none
DefaultN == 1

RepeatNotPassed == [passed |-> FALSE]

RepeatPassed(n) == [passed |-> TRUE, n |-> n]

\* the number of completions the client returns for a call
EffectiveN(repeat) == IF repeat.passed THEN repeat.n ELSE DefaultN

Num(n) == [num |-> n]

NaN == [nan |-> TRUE]

CritiqueArgs ==
    [name : {"", "harmfulness"}, definition : {"", "d"},
     strictness : 0..MaxStrictness, llm : {"None", "set"}]

\* the rows of the model: question, answer and the three kinds of contexts
Contexts ==
    {[t |-> "none"], [t |-> "str", s |-> <<"c">>], [t |-> "list", items |-> <<<<"c">>, <<"d">>>>]}

\* "\n".join(context)
JoinLines(items) ==
    Concat([i \in 1..Len(items) |-> IF i = 1 THEN items[i] ELSE <<NL>> \o items[i]])

\* AspectCritique.prompt_format: the arguments given to CRITIQUE_PROMPT.format
prompt_format(self, question, answer, context) ==
    [prompt     |-> "critique",
     input      |-> IF context.t = "none" THEN question
                    ELSE question \o <<" answer using context: ">> \o
                         (IF context.t = "list" THEN JoinLines(context.items)
                                                ELSE context.s),
     submission |-> answer,
     criteria   |-> self.definition]

\* the completions a judge can give: a verdict "1", "0" or "2", an object
\* with no verdict, a text that is not JSON
ScoreTexts ==
    {JsonObjectText(<<"verdict">>, <<v>>) : v \in {"1", "0", "2"}}
        \cup {<<"{", "}">>, <<"t", "1">>}

HasVerdict(item) == \E i \in 1..Len(item.items) : item.items[i][1] = <<"verdict">>

\* item["verdict"]
GetVerdict(item) ==
    item.items[CHOOSE i \in 1..Len(item.items) : item.items[i][1] = <<"verdict">>][2]

\* ANSWER_DICT.get(item.get("verdict", np.nan), np.nan)
AnswerOf(item) ==
    IF ~HasVerdict(item) THEN NaN
    ELSE IF GetVerdict(item) = <<"1">> THEN Num(1)
    ELSE IF GetVerdict(item) = <<"0">> THEN Num(0)
    ELSE NaN

CountIn(seq, v) == Cardinality({i \in 1..Len(seq) : seq[i] = v})

FirstIndex(seq, v) == CHOOSE i \in 1..Len(seq) : seq[i] = v /\ \A j \in 1..(i - 1) : seq[j] # v

\* the highest count, the last seen on a tie
MostCommonLastSeen(seq) ==
    seq[CHOOSE i \in 1..Len(seq) :
            /\ FirstIndex(seq, seq[i]) = i
            /\ \A j \in 1..Len(seq) :
                 \/ CountIn(seq, seq[j]) < CountIn(seq, seq[i])
                 \/ /\ CountIn(seq, seq[j]) = CountIn(seq, seq[i])
                    /\ FirstIndex(seq, seq[j]) <= i]

\* Counter(seq).most_common(1)[0][0]: the highest count, the first seen on a tie
MostCommon(seq) ==
    seq[CHOOSE i \in 1..Len(seq) :
            /\ FirstIndex(seq, seq[i]) = i
            /\ \A j \in 1..Len(seq) :
                 \/ CountIn(seq, seq[j]) < CountIn(seq, seq[i])
                 \/ /\ CountIn(seq, seq[j]) = CountIn(seq, seq[i])
                    /\ FirstIndex(seq, seq[j]) >= i]

\* AspectCritique._compute_score
compute_score(self, safe_loaded_responses) ==
    IF self.strictness > 1
    THEN MostCommon([i \in 1..Len(safe_loaded_responses) |->
                        AnswerOf(safe_loaded_responses[i])])
    ELSE AnswerOf(safe_loaded_responses[1])

InitScore ==
    /\ args \in CritiqueArgs
    /\ metric = [state |-> "args"]
    /\ heap = <<>>
    /\ out = [op |-> "none"]
    /\ cache = <<>>
    /\ llm = "judge"
    /\ pc = "idle"
    /\ frame = NoFrame
    /\ llmLog = <<>>
    /\ repairLog = <<>>

\* AspectCritique(...): the dataclass fields are set and __post_init__ runs
PostInit ==
    /\ metric.state = "args"
    /\ IF args.name = ""
       THEN metric' = [state |-> "error", error |-> "Expects a name"]
       ELSE IF args.definition = ""
       THEN metric' = [state |-> "error", error |-> "Expects definition"]
       ELSE metric' = [state       |-> "ok",
                       name        |-> args.name,
                       definition  |-> args.definition,
                       llm         |-> args.llm,
                       strictness  |-> IF args.strictness % 2 # 0
                                       THEN args.strictness
                                       ELSE args.strictness + 1]
    /\ out' = [op |-> "construct"]
    /\ UNCHANGED <<args, heap, adaptVars>>

\* the scoring of one row after the assert: one call of the client without a
\* repeat count, every completion through safe_load, then _compute_score
ScoreRow(method, context) ==
    LET call == [method |-> method,
                 prompt |-> prompt_format(metric, <<"q">>, <<"a">>, context),
                 repeat |-> RepeatNotPassed]
    IN  \E responses \in [1..EffectiveN(call.repeat) -> ScoreTexts] :
          \E loaded \in [1..Len(responses) ->
                           UNION {SafeLoadOutcomes(t) : t \in ScoreTexts}] :
            /\ \A i \in 1..Len(responses) : loaded[i] \in SafeLoadOutcomes(responses[i])
            /\ out' = [op |-> "score", call |-> call, responses |-> responses,
                       result |->
                         IF \E i \in 1..Len(loaded) : loaded[i].kind = "error"
                         THEN [kind |-> "JSONRepairError"]
                         ELSE [kind |-> "score",
                               value |-> compute_score(metric,
                                   [i \in 1..Len(loaded) |-> loaded[i].value])]]

\* AspectCritique._score(row, callbacks)
Score ==
    /\ metric.state = "ok"
    /\ IF metric.llm = "None"
       THEN out' = [op |-> "score", result |-> [kind |-> "AssertionError"]]
       ELSE \E context \in Contexts : ScoreRow("generate_text", context)
    /\ UNCHANGED <<args, heap, adaptVars, metric>>

\* AspectCritique._ascore(row, callbacks)
AScore ==
    /\ metric.state = "ok"
    /\ IF metric.llm = "None"
       THEN out' = [op |-> "score", result |-> [kind |-> "AssertionError"]]
       ELSE \E context \in Contexts : ScoreRow("agenerate_text", context)
    /\ UNCHANGED <<args, heap, adaptVars, metric>>

NextScore == PostInit \/ Score \/ AScore

SpecScore == InitScore /\ [][NextScore]_vars

(***************************************************************************)
(* AspectCritique._compute_score on its own: any list of loaded samples    *)
(* for a metric whose strictness __post_init__ has made odd.               *)
(***************************************************************************)
\* a loaded sample: an object with a verdict "1", "0" or "2", or without one
VoteSamples ==
    {Dict(<< <<<<"verdict">>, <<v>>>> >>) : v \in {"1", "0", "2"}} \cup {Dict(<<>>)}

InitVote ==
    /\ args \in [samples : SeqsUpTo(VoteSamples, MaxSamples) \ {<<>>}]
    /\ \E s \in {k \in 1..MaxStrictness : k % 2 = 1} :
         metric = [state |-> "ok", name |-> "harmfulness", definition |-> "d",
                   llm |-> "set", strictness |-> s]
    /\ heap = <<>>
    /\ out = [op |-> "none"]
    /\ cache = <<>>
    /\ llm = "judge"
    /\ pc = "idle"
    /\ frame = NoFrame
    /\ llmLog = <<>>
    /\ repairLog = <<>>

\* self._compute_score(safe_loaded_responses)
ComputeScore ==
    /\ out.op = "none"
    /\ out' = [op |-> "compute_score", result |-> compute_score(metric, args.samples)]
    /\ UNCHANGED <<args, heap, adaptVars, metric>>

NextVote == ComputeScore

SpecVote == InitVote /\ [][NextVote]_vars

(***************************************************************************)
(* Faithfulness._compute_score (_faithfulness.py), from the value that     *)
(* json_loader.safe_load gave: a list of statements or one statement.  A    *)
(* statement is a dict in insertion order; its verdict, if it has one, is   *)
(* a string, a number or None (JSON null).                                  *)
(***************************************************************************)
IntVal(s) == [t |-> "int", s |-> s]

VerdictValues ==
    {Str(<<"1">>), Str(<<"0">>), Str(<<"-", "1">>), Str(<<"n", "u", "l", "l">>),
     Str(<<"N", "U", "L", "L">>), IntVal(<<"1">>), NoneVal}

Statements ==
    {<< <<"verdict", v>> >> : v \in VerdictValues} \cup {<< <<"reason", Str(<<"r">>)>> >>}

\* the loaded outputs: a list of statements, or a single statement
LoadedOutputs ==
    {[list |-> TRUE, items |-> l] : l \in SeqsUpTo(Statements, MaxStatements)}
        \cup {[list |-> FALSE, item |-> st] : st \in Statements}

\* str.lower()
StrLower(s) ==
    [i \in 1..Len(s) |->
        CASE s[i] = "N" -> "n" [] s[i] = "U" -> "u" [] s[i] = "L" -> "l" [] OTHER -> s[i]]

\* verdict_score_map.get(text, np.nan)
VerdictScore(text) ==
    IF text = <<"1">> THEN Num(1)
    ELSE IF text = <<"0">> THEN Num(0)
    ELSE NaN

\* statement.get("verdict", "")
VerdictOf(statement) ==
    IF HasKey(statement, "verdict") THEN GetKey(statement, "verdict") ELSE Str(<<>>)

\* sum(...) of the mapped verdicts of the first n statements: NaN propagates
RECURSIVE SumScores(_, _)
SumScores(output, n) ==
    IF n = 0 THEN Num(0)
    ELSE LET rest == SumScores(output, n - 1)
             this == VerdictScore(StrLower(VerdictOf(output[n]).s))
         IN  IF rest = NaN \/ this = NaN THEN NaN ELSE Num(rest.num + this.num)

Ratio(a, b) == [ratio |-> <<a, b>>]

\* Faithfulness._compute_score after safe_load
faithfulness_compute_score(loaded) ==
    LET output == IF loaded.list THEN loaded.items ELSE <<loaded.item>>
    IN  IF \E i \in 1..Len(output) : VerdictOf(output[i]).t # "str"
        THEN [kind |-> "AttributeError", what |-> "lower"]
        ELSE IF Len(output) = 0 THEN [kind |-> "score", value |-> NaN]
        ELSE IF SumScores(output, Len(output)) = NaN
             THEN [kind |-> "score", value |-> NaN]
             ELSE [kind |-> "score",
                   value |-> Ratio(SumScores(output, Len(output)).num, Len(output))]

InitRatio ==
    /\ args \in [output : LoadedOutputs]
    /\ metric = [state |-> "ok", name |-> "faithfulness", llm |-> "set"]
    /\ heap = <<>>
    /\ out = [op |-> "none"]
    /\ cache = <<>>
    /\ llm = "judge"
    /\ pc = "idle"
    /\ frame = NoFrame
    /\ llmLog = <<>>
    /\ repairLog = <<>>

\* self._compute_score(result)
FaithfulnessComputeScore ==
    /\ out.op = "none"
    /\ out' = [op |-> "faithfulness_score", result |-> faithfulness_compute_score(args.output)]
    /\ UNCHANGED <<args, heap, adaptVars, metric>>

NextRatio == FaithfulnessComputeScore

SpecRatio == InitRatio /\ [][NextRatio]_vars

(***************************************************************************)
(* AnswerRelevancy.calculate_similarity and _calculate_score               *)
(* (_answer_relevance.py).  An embedding is a vector of two integers with   *)
(* an integer norm, a number is an exact fraction in lowest terms.          *)
(***************************************************************************)
Abs(n) == IF n < 0 THEN -n ELSE n

RECURSIVE Gcd(_, _)
Gcd(a, b) == IF b = 0 THEN a ELSE Gcd(b, a % b)

\* the fraction a / b, b # 0, in lowest terms with a positive denominator
Frac(a, b) ==
    LET g == Gcd(Abs(a), Abs(b))
        sign == IF b < 0 THEN -1 ELSE 1
    IN  Ratio(sign * (a \div g), sign * (b \div g))

FracAdd(x, y) ==
    Frac(x.ratio[1] * y.ratio[2] + y.ratio[1] * x.ratio[2], x.ratio[2] * y.ratio[2])

FracTimesInt(x, n) == Frac(x.ratio[1] * n, x.ratio[2])

\* embed_query / embed_documents: the vector of a text
Embed(text) ==
    CASE text = <<"q">>  -> <<3, 4>>
      [] text = <<"g1">> -> <<4, 3>>
      [] text = <<"g2">> -> <<-3, -4>>
      [] text = <<"g3">> -> <<1, 0>>
      [] OTHER           -> <<0, 1>>

Dot(u, v) == u[1] * v[1] + u[2] * v[2]

\* np.linalg.norm of a vector whose norm is an integer
Norm(u) == CHOOSE n \in 0..(Abs(u[1]) + Abs(u[2])) : n * n = Dot(u, u)

\* calculate_similarity: dot(gen, question) / (norm(gen) * norm(question)), per candidate
calculate_similarity(question, generated_questions) ==
    [i \in 1..Len(generated_questions) |->
        Frac(Dot(Embed(generated_questions[i]), Embed(question)),
             Norm(Embed(generated_questions[i])) * Norm(Embed(question)))]

RECURSIVE FracSum(_, _)
FracSum(xs, n) == IF n = 0 THEN Frac(0, 1) ELSE FracAdd(FracSum(xs, n - 1), xs[n])

\* cosine_sim.mean()
Mean(xs) ==
    LET total == FracSum(xs, Len(xs))
    IN  Frac(total.ratio[1], total.ratio[2] * Len(xs))

Bool(b) == [t |-> "bool", b |-> b]

\* item.get("question", "")
GenQuestion(item) ==
    IF HasKey(item, "question") THEN GetKey(item, "question").s ELSE <<>>

\* item.get("noncommittal", False)
Noncommittal(item) ==
    IF HasKey(item, "noncommittal") THEN GetKey(item, "noncommittal").b ELSE FALSE

\* every candidate is flagged
CommittalAll(response) == \A i \in 1..Len(response) : Noncommittal(response[i])

\* np.any([item.get("noncommittal", False) for item in response])
Committal(response) == \E i \in 1..Len(response) : Noncommittal(response[i])

\* AnswerRelevancy._calculate_score
calculate_score(response, row) ==
    LET gen_questions == [i \in 1..Len(response) |-> GenQuestion(response[i])]
        cosine_sim == calculate_similarity(row.question, gen_questions)
    IN  FracTimesInt(Mean(cosine_sim), IF Committal(response) THEN 0 ELSE 1)

\* the loaded completions: a generated question or none, a flag or none
Candidates ==
    {qs \o fl : qs \in {<<>>} \cup {<< <<"question", Str(<<g>>)>> >> : g \in {"q", "g1", "g2", "g3"}},
                fl \in {<<>>} \cup {<< <<"noncommittal", Bool(b)>> >> : b \in BOOLEAN}}

InitRelevance ==
    /\ args \in [row : {[question |-> <<"q">>]},
                 response : SeqsUpTo(Candidates, MaxCandidates) \ {<<>>}]
    /\ metric = [state |-> "ok", name |-> "answer_relevancy", llm |-> "set"]
    /\ heap = <<>>
    /\ out = [op |-> "none"]
    /\ cache = <<>>
    /\ llm = "judge"
    /\ pc = "idle"
    /\ frame = NoFrame
    /\ llmLog = <<>>
    /\ repairLog = <<>>

\* self._calculate_score(response, row)
CalculateScore ==
    /\ out.op = "none"
    /\ out' = [op |-> "relevancy_score",
               similarities |-> calculate_similarity(args.row.question,
                                   [i \in 1..Len(args.response) |-> GenQuestion(args.response[i])]),
               result |-> calculate_score(args.response, args.row)]
    /\ UNCHANGED <<args, heap, adaptVars, metric>>

NextRelevance == CalculateScore

SpecRelevance == InitRelevance /\ [][NextRelevance]_vars

(***************************************************************************)
(* The metrics and their Templates (critique.py, _faithfulness.py,         *)
(* _answer_relevance.py).  A metric holds its Templates in fields: heap     *)
(* ids.  The default of a field is the module-level Prompt object           *)
(* (default_factory=lambda: CRITIQUE_PROMPT and the like), so the field     *)
(* and the module constant are then one object; a caller may pass a         *)
(* Template of its own instead.                                             *)
(***************************************************************************)
MetricKinds == {"critique", "faithfulness", "answer_relevancy"}

\* critic_prompt; long_form_answer_prompt and nli_statements_message;
\* question_generation
FieldCount(kind) == IF kind = "faithfulness" THEN 2 ELSE 1

\* the scoring path formats self.question_generation in AnswerRelevancy, the
\* module constants CRITIQUE_PROMPT, LONG_FORM_ANSWER_PROMPT and
\* NLI_STATEMENTS_MESSAGE in the other two
FormatsOwnField(kind) == kind = "answer_relevancy"

\* adapt assigns what Prompt.adapt returns to the field, but for AspectCritique
RebindsField(kind) == kind # "critique"

MetricTemplates ==
    {a \in MainArgs :
        a.input_keys = <<"a">> /\ a.output_key = "o" /\ Len(a.examples) = 1}

\* the cache before the metric is adapted: empty, or with the file that a
\* save of the first Template, adapted to "hi" earlier, has written
MetricCaches(template) ==
    {[path \in CachePaths |-> NoFile],
     save([template EXCEPT !.language = "hi"], "None", [path \in CachePaths |-> NoFile])}

InitMetrics ==
    /\ \E kind \in MetricKinds, custom \in BOOLEAN :
         /\ heap \in [1..(IF custom THEN 2 * FieldCount(kind) ELSE FieldCount(kind))
                        -> MetricTemplates]
         /\ metric = [state   |-> "metrics",
                      kind    |-> kind,
                      fields  |-> [i \in 1..FieldCount(kind) |-> i],
                      modules |-> [i \in 1..FieldCount(kind) |->
                                      IF custom THEN FieldCount(kind) + i ELSE i],
                      step    |-> 0,
                      call    |-> <<>>,
                      adapted |-> "none"]
    /\ args = heap
    /\ out = [op |-> "none"]
    /\ cache \in MetricCaches(heap[1])
    /\ llm \in LLMKinds
    /\ pc = "idle"
    /\ frame = NoFrame
    /\ llmLog = <<>>
    /\ repairLog = <<>>

\* metric.adapt(language, cache_dir): Prompt.adapt is called on the first field
MetricAdapt ==
    /\ metric.step = 0
    /\ out.op # "adapt"
    /\ (AdaptHit \/ AdaptMiss)

\* Prompt.adapt has returned or raised inside metric.adapt: the field is
\* assigned (not in AspectCritique), and adapt goes on to the next field or ends
MetricAdaptReturn ==
    /\ pc = "idle"
    /\ out.op = "adapt"
    /\ out.result.kind # "running"
    /\ LET cur == IF metric.step = 0 THEN 1 ELSE metric.step
           bound == IF RebindsField(metric.kind) /\ out.result.kind = "Prompt"
                    THEN [metric.fields EXCEPT ![cur] = out.result.id]
                    ELSE metric.fields
       IN  IF out.result.kind # "Prompt"
           THEN /\ metric' = [metric EXCEPT !.step = 0, !.adapted = "none"]
                /\ out' = [op |-> "metric_adapt", result |-> out.result]
           ELSE IF cur < Len(metric.fields)
           THEN /\ metric' = [metric EXCEPT !.fields = bound, !.step = cur + 1,
                                            !.call = <<out.path[1], out.path[2]>>]
                /\ out' = [op |-> "metric_adapt", result |-> [kind |-> "running"]]
           ELSE /\ metric' = [metric EXCEPT !.fields = bound, !.step = 0,
                                            !.adapted = out.path[2]]
                /\ out' = [op |-> "metric_adapt", result |-> [kind |-> "None"]]
    /\ UNCHANGED <<args, heap, adaptVars>>

\* Faithfulness.adapt, second statement: Prompt.adapt on the next field, with
\* the same language and cache_dir
MetricAdaptNext ==
    /\ metric.step > 1
    /\ out.op = "metric_adapt"
    /\ (AdaptHit \/ AdaptMiss)
    /\ out'.path[1] = metric.call[1]
    /\ out'.path[2] = metric.call[2]

\* prompt_format, _create_answer_prompt and _create_nli_prompt,
\* _create_question_gen_prompt: the Templates that the scoring path formats
MetricFormat ==
    /\ pc = "idle"
    /\ metric.step = 0
    /\ out.op # "adapt"
    /\ LET from == IF FormatsOwnField(metric.kind) THEN metric.fields ELSE metric.modules
       IN  out' = [op |-> "metric_format", from |-> from,
                   rendered |-> [i \in 1..Len(from) |-> to_string(heap[from[i]])]]
    /\ UNCHANGED <<args, heap, adaptVars, metric>>

NextMetrics ==
    \/ MetricAdapt
    \/ MetricAdaptNext
    \/ MetricAdaptReturn
    \/ MetricFormat
    \/ AdaptCall
    \/ AdaptCallRaises
    \/ AdaptRegroup
    \/ AdaptRebuild
    \/ AdaptRebuildRaises
    \/ AdaptFinalize

SpecMetrics == InitMetrics /\ [][NextMetrics]_vars

(***************************************************************************)
(* Helpers of the statements below: the lines of a text (split at "\n"),   *)
(* brace counting and the de-escaping of doubled braces.                   *)
(***************************************************************************)
NewlinesOf(text) == {i \in 1..Len(text) : text[i] = NL}

\* the position of the m-th newline of text; 0 for m = 0, Len + 1 past the last
NewlineAt(text, m) ==
    IF m = 0 THEN 0
    ELSE IF m > Cardinality(NewlinesOf(text)) THEN Len(text) + 1
    ELSE CHOOSE p \in NewlinesOf(text) :
            Cardinality({q \in NewlinesOf(text) : q < p}) = m - 1

SplitLines(text) ==
    [m \in 1..(Cardinality(NewlinesOf(text)) + 1) |->
        SubSeq(text, NewlineAt(text, m - 1) + 1, NewlineAt(text, m) - 1)]

NonBlank(line) == line # <<>>

CountOf(s, c) == Cardinality({i \in 1..Len(s) : s[i] = c})

\* text.replace("{{", "{").replace("}}", "}")
HalveBraces(s) == ReplaceTwo(ReplaceTwo(s, "{", <<"{">>), "}", <<"}">>)

\* all the fields of all the examples, in order
AllFields(self) == Concat(self.examples)

IsJsonKind(self) == self.output_type \in {"json", "JSON"}

(***************************************************************************)
(* C3: format raises the parameter-mismatch error if and only if the set   *)
(* of keyword names differs from the set of input_keys, that is, iff some  *)
(* input key is missing or some keyword is extra.                          *)
(***************************************************************************)
C3_FormatMismatchIff ==
    out.op = "format" =>
        LET keys == Range(heap[1].input_keys)
            given == DOMAIN out.kwargs
            raised == out.result.kind = "ValueError"
        IN  raised <=> ((\E k \in keys : k \notin given) \/ (\E k \in given : k \notin keys))

C3_Witness ==
    /\ out.op = "format"
    /\ heap[1].input_keys = <<"a", "b">>
    /\ DOMAIN out.kwargs = {"a", "b"}
    /\ out.result.kind = "PromptValue"

(***************************************************************************)
(* C4: construction fails for every definition error (empty instruction,   *)
(* empty input_keys list, empty output_key, an example lacking a declared  *)
(* key, a json-kind example whose string output is not JSON text), and no  *)
(* Template with such an error is ever constructed.                        *)
(***************************************************************************)
DefinitionError(a) ==
    \/ a.instruction = <<>>
    \/ a.input_keys = <<>>
    \/ a.output_key = ""
    \/ \E i \in 1..Len(a.examples) :
            \/ \E j \in 1..Len(a.input_keys) : ~HasKey(a.examples[i], a.input_keys[j])
            \/ ~HasKey(a.examples[i], a.output_key)
            \/ /\ IsJsonKind(a)
               /\ GetKey(a.examples[i], a.output_key).t = "str"
               /\ ~JsonLoadsOk(GetKey(a.examples[i], a.output_key).s)

C4_DefinitionErrorsRejected ==
    /\ out.op = "construct" /\ DefinitionError(args) => out.result.err # "ok"
    /\ heap # <<>> => ~DefinitionError(heap[1])

(***************************************************************************)
(* C5: in the rendered text of a json-kind Template every field value of   *)
(* an example is its serialized value with each brace doubled, so halving  *)
(* the doubled braces gives the serialized value back; for kind string the *)
(* serialized value is emitted unchanged.                                  *)
(***************************************************************************)
C5_BraceEscapingRoundTrip ==
    out.op = "to_string" =>
        LET self == heap[1]
            lines == SelectSeq(SplitLines(out.result), NonBlank)
            fields == AllFields(self)
        IN  \A n \in 1..Len(fields) :
                LET line == lines[n + 1]
                    prefix == KeyChars(fields[n][1]) \o <<":", " ">>
                    emitted == SubSeq(line, Len(prefix) + 1, Len(line))
                    serialized == JsonDumps(fields[n][2])
                IN  /\ SubSeq(line, 1, Len(prefix)) = prefix
                    /\ IF IsJsonKind(self)
                       THEN /\ HalveBraces(emitted) = serialized
                            /\ CountOf(emitted, "{") = 2 * CountOf(serialized, "{")
                            /\ CountOf(emitted, "}") = 2 * CountOf(serialized, "}")
                       ELSE emitted = serialized

C5_Witness ==
    /\ out.op = "to_string"
    /\ heap[1].output_type = "JSON"
    /\ Len(heap[1].examples) = 2
    /\ \E n \in 1..Len(AllFields(heap[1])) :
            /\ CountOf(JsonDumps(AllFields(heap[1])[n][2]), "{") > 0
            /\ CountOf(JsonDumps(AllFields(heap[1])[n][2]), "}") > 0

(***************************************************************************)
(* C6, as amended: the rendered text is instruction + "\n", then for each  *)
(* example in order its fields in insertion order as "\n<field>: <value>"  *)
(* followed by one more "\n", then for each input key in declared order    *)
(* the slot "\n<key>: {<key>}", then the cue "\n<output_key>: \n"; <value>  *)
(* is json.dumps of the field value, a string value included (quoted and   *)
(* escaped), with every brace doubled when the kind is json.               *)
(***************************************************************************)
DoubleBraces(s) ==
    Concat([i \in 1..Len(s) |-> IF s[i] \in {"{", "}"} THEN <<s[i], s[i]>> ELSE <<s[i]>>])

ExpectedValue(self, value) ==
    IF IsJsonKind(self) THEN DoubleBraces(JsonDumps(value)) ELSE JsonDumps(value)

ExpectedExampleLines(self, example) ==
    <<<<>>>> \o [j \in 1..Len(example) |->
                    KeyChars(example[j][1]) \o <<":", " ">> \o ExpectedValue(self, example[j][2])]

ExpectedLines(self) ==
    <<self.instruction>>
    \o Concat([i \in 1..Len(self.examples) |-> ExpectedExampleLines(self, self.examples[i])])
    \o <<<<>>>>
    \o [j \in 1..Len(self.input_keys) |->
            <<self.input_keys[j], ":", " ", "{", self.input_keys[j], "}">>]
    \o << <<self.output_key, ":", " ">>, <<>> >>

C6_RenderLayout ==
    out.op = "to_string" => SplitLines(out.result) = ExpectedLines(heap[1])

C6_Witness ==
    /\ out.op = "to_string"
    /\ Len(heap[1].examples) = 2
    /\ Len(heap[1].examples[1]) = 2
    /\ Len(heap[1].examples[2]) = 2
    /\ heap[1].examples[1][1][1] = "o"
    /\ heap[1].examples[2][1][2].t = "str"
    /\ heap[1].examples[2][2][2].t = "dict"

(***************************************************************************)
(* C6 as first stated: no line after an example, and a string value is     *)
(* its own text (only a non-string value is serialized).                   *)
(***************************************************************************)
ClaimedValue(self, value) ==
    LET form == IF value.t = "str" THEN value.s ELSE JsonDumps(value)
    IN  IF IsJsonKind(self) THEN DoubleBraces(form) ELSE form

ClaimedText(self) ==
    self.instruction \o <<NL>>
    \o Concat([n \in 1..Len(AllFields(self)) |->
            <<NL>> \o KeyChars(AllFields(self)[n][1]) \o <<":", " ">>
            \o ClaimedValue(self, AllFields(self)[n][2])])
    \o Concat([j \in 1..Len(self.input_keys) |->
            <<NL, self.input_keys[j], ":", " ", "{", self.input_keys[j], "}">>])
    \o <<NL, self.output_key, ":", " ", NL>>

C6_RenderLayoutAsStated ==
    out.op = "to_string" => out.result = ClaimedText(heap[1])

(***************************************************************************)
(* C1: cache round trip.  After save(T, R), load(T.language, T.name, R)    *)
(* succeeds and returns a Template whose seven fields equal T's: whenever   *)
(* a load has read an existing file, its result is a Prompt whose fields    *)
(* are the ones that were saved in the file.                                *)
(***************************************************************************)
C1_CacheRoundTrip ==
    (out.op = "load" /\ PathExists(cache, out.path)) =>
        /\ out.result.kind = "Prompt"
        /\ PromptDict(heap[out.result.id]) = cache[out.path].doc

(***************************************************************************)
(* C2: adapter idempotence.  When the cache holds a file for the target    *)
(* language and the template name, adapt returns a Template with the        *)
(* content of the file and makes no model call.                             *)
(***************************************************************************)
C2_AdapterIdempotence ==
    (out.op = "adapt" /\ out.hit) =>
        /\ out.result.kind = "Prompt"
        /\ PromptDict(heap[out.result.id]) = cache[out.path].doc
        /\ llmLog = <<>>

\* the n-th request (from 1) for the template as it was when adapt started
ExpectedRequest(before, language, n) ==
    LET k == Len(before.input_keys)
        example == before.examples[((n - 1) \div (k + 1)) + 1]
        j == ((n - 1) % (k + 1)) + 1
    IN  IF j <= k
        THEN [prompt |-> "str_translation", translate_to |-> language,
              input |-> GetKey(example, before.input_keys[j])]
        ELSE [prompt |-> IF IsJsonKind(before) THEN "json_translation"
                                               ELSE "str_translation",
              translate_to |-> language,
              input |-> GetKey(example, before.output_key)]

\* adapt is past its dispatch loop
DispatchDone ==
    \/ pc \in {"regroup", "rebuild", "finalize"}
    \/ pc = "idle" /\ out.result.kind \in {"Prompt", "JSONRepairError", "AssertionError"}

(***************************************************************************)
(* C7: adapter request sequence.  On a cache miss for a Template with E    *)
(* examples and k input keys, the model calls of adapt are made one at a    *)
(* time, the n-th call carries the n-th request of the order "example by    *)
(* example, the k input keys in declared order as string translations,      *)
(* then the output key as a JSON translation iff the kind is json", the     *)
(* n-th collected result is the response of the n-th call, and once the     *)
(* dispatch is over exactly E*(k+1) calls were made.                        *)
(***************************************************************************)
C7_AdapterRequestSequence ==
    frame # NoFrame =>
        LET E == Len(frame.before.examples)
            k == Len(frame.before.input_keys)
        IN  /\ Len(llmLog) = Len(frame.results)
            /\ Len(llmLog) <= E * (k + 1)
            /\ \A n \in 1..Len(llmLog) :
                 /\ llmLog[n].request = ExpectedRequest(frame.before, frame.language, n)
                 /\ frame.results[n] = llmLog[n].response
            /\ DispatchDone => Len(llmLog) = E * (k + 1)

C7_Witness ==
    /\ frame # NoFrame
    /\ pc = "regroup"
    /\ Len(frame.before.input_keys) = 2
    /\ Len(frame.before.examples) = 2
    /\ IsJsonKind(frame.before)
    /\ Len(llmLog) = 6
    /\ llmLog[6].request.prompt = "json_translation"
    /\ llmLog[5].request.prompt = "str_translation"

\* a cache-miss adapt has returned the Template
AdaptCompleted == frame # NoFrame /\ pc = "idle" /\ out.result.kind = "Prompt"

\* example i (from 1) of the returned Template against the collected results
RebuiltAsClaimed(self, i) ==
    LET k == Len(self.input_keys)
        base == (i - 1) * (k + 1)
    IN  /\ \A j \in 1..k :
             /\ HasKey(self.examples[i], self.input_keys[j])
             /\ GetKey(self.examples[i], self.input_keys[j]) = Str(frame.results[base + j])
        /\ HasKey(self.examples[i], self.output_key)
        /\ IF IsJsonKind(self)
           THEN /\ repairLog[i].text = frame.results[base + k + 1]
                /\ GetKey(self.examples[i], self.output_key) = repairLog[i].value
           ELSE GetKey(self.examples[i], self.output_key) = Str(frame.results[base + k + 1])

ReconstructionAsClaimed ==
    /\ out.result.id = 1
    /\ Len(heap) = 1
    /\ heap[1].language = frame.language
    /\ Len(heap[1].examples) = Len(frame.before.examples)
    /\ Len(repairLog) = IF IsJsonKind(heap[1]) THEN Len(heap[1].examples) ELSE 0
    /\ \A i \in 1..Len(heap[1].examples) : RebuiltAsClaimed(heap[1], i)

(***************************************************************************)
(* C9: adapter reconstruction and finalize.  When a cache-miss adapt(L)    *)
(* on a Template whose output key is not one of its input keys completes,   *)
(* it returns the same object, with language L and as many examples as      *)
(* before; example i maps input_keys[j] to result[i*(k+1)+j] and the        *)
(* output key to result[i*(k+1)+k], which went through the JSON-repair      *)
(* collaborator iff the kind is json; every rebuilt example has all input   *)
(* keys and the output key.                                                 *)
(***************************************************************************)
C9_AdapterReconstruction ==
    (AdaptCompleted /\ heap[1].output_key \notin Range(heap[1].input_keys)) =>
        ReconstructionAsClaimed

C9_Witness ==
    /\ AdaptCompleted
    /\ heap[1].output_key \notin Range(heap[1].input_keys)
    /\ Len(heap[1].input_keys) = 2
    /\ Len(heap[1].examples) = 2
    /\ IsJsonKind(heap[1])
    /\ heap[1].language = "hi"
    /\ repairLog[2].calls = 1
    /\ frame.before.examples # heap[1].examples

\* C9 as stated, for every Template: also when the output key is an input key
C9_AdapterReconstructionAsStated ==
    AdaptCompleted => ReconstructionAsClaimed

VoteCount(s) == IF s % 2 = 1 THEN s ELSE s + 1

(***************************************************************************)
(* C10: majority-vote sampling.  A critique metric configured with         *)
(* strictness s votes over K samples, K = s if s is odd and s + 1 if s is   *)
(* even: the metric holds K as its strictness, and every call of the model  *)
(* client made by the synchronous or the asynchronous scoring path asks     *)
(* for K completions and gets K responses.                                  *)
(***************************************************************************)
C10_MajorityVoteSampling ==
    /\ metric.state = "ok" =>
         /\ metric.strictness = VoteCount(args.strictness)
         /\ metric.strictness % 2 = 1
    /\ (out.op = "score" /\ out.result.kind # "AssertionError") =>
         /\ out.call.method \in {"generate_text", "agenerate_text"}
         /\ EffectiveN(out.call.repeat) = VoteCount(args.strictness)
         /\ Len(out.responses) = VoteCount(args.strictness)
\* the verdict of a sample mapped: "1" to 1, "0" to 0, anything else undefined
MappedVerdict(sample) ==
    IF sample = Dict(<< <<<<"verdict">>, <<"1">>>> >>) THEN Num(1)
    ELSE IF sample = Dict(<< <<<<"verdict">>, <<"0">>>> >>) THEN Num(0)
    ELSE NaN

\* how often the mapped value v occurs among the samples, and where first
VoteCountOf(samples, v) ==
    Cardinality({i \in 1..Len(samples) : MappedVerdict(samples[i]) = v})

VoteFirstSeen(samples, v) ==
    CHOOSE i \in 1..Len(samples) :
        /\ MappedVerdict(samples[i]) = v
        /\ \A j \in 1..(i - 1) : MappedVerdict(samples[j]) # v

VoteValues(samples) == {MappedVerdict(samples[i]) : i \in 1..Len(samples)}

(***************************************************************************)
(* C11: majority vote result.  For a strictness above 1 the score is a     *)
(* mapped value that no other mapped value of the samples outnumbers, and   *)
(* among the values with that count it is the one seen first; for a         *)
(* strictness of 1 the score is the mapped verdict of the single (first)    *)
(* sample.                                                                  *)
(***************************************************************************)
C11_MajorityVoteResult ==
    out.op = "compute_score" =>
        IF metric.strictness > 1
        THEN /\ out.result \in VoteValues(args.samples)
             /\ \A v \in VoteValues(args.samples) :
                  \/ VoteCountOf(args.samples, v) < VoteCountOf(args.samples, out.result)
                  \/ /\ VoteCountOf(args.samples, v) = VoteCountOf(args.samples, out.result)
                     /\ VoteFirstSeen(args.samples, v) >= VoteFirstSeen(args.samples, out.result)
        ELSE out.result = MappedVerdict(args.samples[1])

\* verdicts ["1", "1", "0"] with strictness 3 give 1
C11_Witness ==
    /\ out.op = "compute_score"
    /\ metric.strictness = 3
    /\ args.samples = <<Dict(<< <<<<"verdict">>, <<"1">>>> >>),
                        Dict(<< <<<<"verdict">>, <<"1">>>> >>),
                        Dict(<< <<<<"verdict">>, <<"0">>>> >>)>>
    /\ out.result = Num(1)
\* the statements of a loaded output, and those whose verdict is "1"
StatementsOf(loaded) == IF loaded.list THEN loaded.items ELSE <<loaded.item>>

IsVerdict(statement, text) ==
    HasKey(statement, "verdict") /\ GetKey(statement, "verdict") = Str(text)

(***************************************************************************)
(* C12: verdict-ratio mean.  When every verdict is "1" or "0" and there is *)
(* a statement, the score is the number of "1" verdicts over the number of  *)
(* statements; when the list is empty or some verdict is anything else,     *)
(* the score is NaN: a score is returned, no exception is raised.           *)
(***************************************************************************)
C12_VerdictRatioMean ==
    out.op = "faithfulness_score" =>
        LET sts == StatementsOf(args.output)
        IN  /\ out.result.kind = "score"
            /\ IF /\ Len(sts) > 0
                  /\ \A i \in 1..Len(sts) :
                       IsVerdict(sts[i], <<"1">>) \/ IsVerdict(sts[i], <<"0">>)
               THEN out.result.value =
                      Ratio(Cardinality({i \in 1..Len(sts) : IsVerdict(sts[i], <<"1">>)}),
                            Len(sts))
               ELSE out.result.value = NaN
\* the candidate is flagged noncommittal
Flagged(item) ==
    \E i \in 1..Len(item) : item[i] = <<"noncommittal", Bool(TRUE)>>

\* the cosine of the angle between the embeddings of two texts, squared and
\* signed: dot * |dot| / (|u|^2 * |v|^2), which needs no square root
SignedSquareCosine(a, b) ==
    Frac(Dot(Embed(a), Embed(b)) * Abs(Dot(Embed(a), Embed(b))),
         Dot(Embed(a), Embed(a)) * Dot(Embed(b), Embed(b)))

SignedSquare(x) == Frac(x.ratio[1] * Abs(x.ratio[1]), x.ratio[2] * x.ratio[2])

(***************************************************************************)
(* C13: similarity-gated mean.  The similarities are the cosines between   *)
(* the reference and each candidate; the score is their arithmetic mean     *)
(* (N times the score is their sum) when no candidate is flagged            *)
(* noncommittal, and 0 when at least one candidate is flagged, whatever     *)
(* the similarities are.                                                    *)
(***************************************************************************)
C13_SimilarityGatedMean ==
    out.op = "relevancy_score" =>
        /\ Len(out.similarities) = Len(args.response)
        /\ \A i \in 1..Len(args.response) :
             SignedSquare(out.similarities[i]) =
                 SignedSquareCosine(args.row.question, GenQuestion(args.response[i]))
        /\ IF \E i \in 1..Len(args.response) : Flagged(args.response[i])
           THEN out.result = Frac(0, 1)
           ELSE FracTimesInt(out.result, Len(args.response)) =
                    FracSum(out.similarities, Len(out.similarities))

\* two candidates with a mean of 49/50, one of them flagged: the score is 0
C13_Witness ==
    /\ out.op = "relevancy_score"
    /\ Len(args.response) = 2
    /\ Flagged(args.response[1])
    /\ ~Flagged(args.response[2])
    /\ out.similarities = <<Frac(24, 25), Frac(1, 1)>>
    /\ out.result = Frac(0, 1)
(***************************************************************************)
(* C15: example lookup bounds.  For every example number that is not a     *)
(* position of the examples list (below 0, or len(examples) and above),     *)
(* get_example_str raises a bounds error, which names the number when it   *)
(* is the error of get_example_str itself; it returns no example text.      *)
(***************************************************************************)
C15_ExampleLookupBounds ==
    (/\ out.op = "get_example_str"
     /\ out.example_no \notin 0..(Len(heap[1].examples) - 1)) =>
        /\ out.result.kind \in {"ValueError", "IndexError"}
        /\ out.result.kind = "ValueError" => out.result.example_no = out.example_no
\* a cache-miss adapt has ended with the error of a collaborator
AdaptFailed ==
    /\ frame # NoFrame
    /\ pc = "idle"
    /\ out.result.kind \in {"LLMError", "JSONRepairError"}

(***************************************************************************)
(* C17: adapt failure atomicity.  When a cache-miss adapt fails part-way,  *)
(* because a model call raises or because the JSON-repair collaborator      *)
(* raises while an example is rebuilt, the examples and the language of     *)
(* the Template are what they were before the call.                         *)
(***************************************************************************)
C17_AdaptFailureAtomicity ==
    AdaptFailed =>
        /\ heap[1].examples = frame.before.examples
        /\ heap[1].language = frame.before.language
(***************************************************************************)
(* C14: template ownership.  Another instance of the metric that was       *)
(* created with the default Templates (as harmfulness, maliciousness,       *)
(* coherence, ... are) holds the module-level Prompt objects in its         *)
(* fields; adapting this metric leaves the examples and the language of     *)
(* those Templates as they were.                                            *)
(***************************************************************************)
C14_TemplateOwnership ==
    metric.state = "metrics" =>
        \A i \in 1..Len(metric.modules) :
            /\ heap[metric.modules[i]].examples = args[metric.modules[i]].examples
            /\ heap[metric.modules[i]].language = args[metric.modules[i]].language

(***************************************************************************)
(* C16: adapt takes effect for scoring.  After metric.adapt(L) has         *)
(* completed, every prompt that the scoring path formats is rendered from   *)
(* the Template in the metric's field, which is the L-adapted one: it has   *)
(* language L.                                                              *)
(***************************************************************************)
C16_AdaptTakesEffect ==
    (out.op = "metric_format" /\ metric.adapted # "none") =>
        \A i \in 1..Len(metric.fields) :
            /\ out.from[i] = metric.fields[i]
            /\ heap[out.from[i]].language = metric.adapted
            /\ out.rendered[i] = to_string(heap[metric.fields[i]])

====
